---- MODULE Spec2Model ----
(***************************************************************************)
(* Browser-session lifecycle (chrome_driver.py), the DOM steps             *)
(* (youtube_automation.py) and the orchestrator run (core.py).             *)
(*                                                                         *)
(* Spec        : one run of MainApplication.run_youtube_demo               *)
(* SpecSession : ChromeDriverManager.managed_driver used by an arbitrary   *)
(*               caller, one scoped block after the other                  *)
(* SpecProfile : the same caller with time passing between its calls       *)
(* SpecTitles  : YouTubeAutomation.get_video_titles as a function of the   *)
(*               matched elements and max_results                          *)
(* SpecJson    : FileHandler.write_json followed by read_json              *)
(* SpecNested  : managed_driver blocks of one manager opened inside one    *)
(*               another                                                   *)
(***************************************************************************)
EXTENDS Integers, Sequences, FiniteSets, TLC

\* ------------------------------------------------------------------ bounds
MaxSessions == 2
MaxElems == 3
MaxResultsArg == 3
MaxClock == 3
TicksPerSecond == 2
MaxKeys == 2

\* ------------------------------------------------------- program constants
DefaultMaxResults == 10

None == "None"

Sessions == 1..MaxSessions

SeqsUpTo(S, n) == UNION {[1..k -> S] : k \in 0..n}

VARIABLES
  _keep_open,   \* ChromeDriverManager._keep_open: << >> while the attribute is unset, else <<value>>
  sess,         \* per managed_driver call: the generator's locals and position
  log,          \* diagnostics printed so far
  pc,           \* position of run_youtube_demo
  raised,       \* exception travelling from the with statement to the handlers of run_youtube_demo
  dom,          \* elements the page exposes to the selector a#video-title, in DOM order
  success,      \* local of search_tech_news: what search returned
  video_titles, \* local of run_youtube_demo: what search_tech_news returned
  files,        \* results/youtube_results.json and .txt: << >> while absent, else <<content>>
  trace,        \* steps performed against the browser, the disk and the console, in order
  max_results,  \* argument of get_video_titles (SpecTitles)
  tpc,          \* position of the get_video_titles call (SpecTitles)
  now,          \* the host clock, in ticks of 1/TicksPerSecond second
  fs,           \* the disk FileHandler works on: directories and file texts (SpecJson)
  jpath,        \* file_path argument of write_json and read_json (SpecJson)
  jdata,        \* data argument of write_json: a dict, as its items in insertion order
  jret,         \* what write_json returned, << >> before it returns
  jread,        \* what read_json returned: a dict, as its set of items
  jpc           \* position of the write_json / read_json sequence (SpecJson)

vars == <<_keep_open, sess, log, pc, raised, dom, success, video_titles,
          files, trace, max_results, tpc, now, fs, jpath, jdata, jret, jread, jpc>>

managerVars == <<_keep_open, sess, log>>
runVars == <<pc, raised, success, video_titles, files, trace>>
titleVars == <<max_results, tpc>>
jsonVars == <<fs, jpath, jdata, jret, jread, jpc>>

\* ---------------------------------------------------------------- exceptions
\* Python classes raised in this program. KeyboardInterrupt derives from
\* BaseException only; all the others derive from Exception.
Exceptions == {"FileNotFoundError", "RuntimeError", "WebDriverException",
               "TimeoutException", "EOFError"}
Interrupts == {"KeyboardInterrupt"}

IsException(e) == e \in Exceptions

Raises(outcome) == outcome \in Exceptions \cup Interrupts

\* -------------------------------------------------------------------- clock
\* int(time.time()): the whole seconds of the clock
time_seconds(t) == t \div TicksPerSecond

\* datetime.now().strftime("%Y-%m-%d %H:%M:%S"): the clock printed to the second
\* (the date and time fields are those of time_seconds)
_get_timestamp(t) == <<"%Y-%m-%d %H:%M:%S", t \div TicksPerSecond>>

\* ------------------------------------------------------------ create_driver
DEFAULT_PROFILE_NAME == "project_profile"

ProfileNames == {None, "work"}

\* Config.get_chrome_profile_path(): the same directory on every call
get_chrome_profile_path == <<"ChromeProfiles", DEFAULT_PROFILE_NAME>>

\* create_driver lines 82-94: profile_name defaults to DEFAULT_PROFILE_NAME;
\* profile_path = get_chrome_profile_path() / f"{profile_name}_{timestamp}"
profile_path(profile_name, t) ==
  <<get_chrome_profile_path,
    IF profile_name = None THEN DEFAULT_PROFILE_NAME ELSE profile_name,
    time_seconds(t)>>

\* What create_driver finds on the host: whether _get_chrome_paths resolves,
\* whether the two resolved paths exist, and how webdriver.Chrome(...) ends.
SetupEnvs == [paths_ok: BOOLEAN, chrome_exists: BOOLEAN, driver_exists: BOOLEAN,
              launch: {"ok", "WebDriverException", "KeyboardInterrupt"}]

\* One host per path through create_driver: a condition it never gets to
\* read (after an earlier failure) is left at its good value.
SetupPaths ==
  {e \in SetupEnvs :
     /\ ~e.paths_ok => e.chrome_exists
     /\ ~(e.paths_ok /\ e.chrome_exists) => e.driver_exists
     /\ ~(e.paths_ok /\ e.chrome_exists /\ e.driver_exists) => e.launch = "ok"}

create_driver_unchecked(env) ==
  IF ~env.paths_ok
    THEN [raises |-> "RuntimeError", driver |-> None, launched |-> FALSE]
  ELSE IF ~env.chrome_exists
    THEN [raises |-> "FileNotFoundError", driver |-> None, launched |-> FALSE]
  ELSE IF env.launch = "ok"
    THEN [raises |-> "none", driver |-> "WebDriver", launched |-> TRUE]
  ELSE [raises |-> env.launch, driver |-> None, launched |-> TRUE]

create_driver(env) ==
  IF ~env.paths_ok
    THEN [raises |-> "RuntimeError", driver |-> None, launched |-> FALSE]
  ELSE IF ~env.chrome_exists
    THEN [raises |-> "FileNotFoundError", driver |-> None, launched |-> FALSE]
  ELSE IF ~env.driver_exists
    THEN [raises |-> "FileNotFoundError", driver |-> None, launched |-> FALSE]
  ELSE IF env.launch = "ok"
    THEN [raises |-> "none", driver |-> "WebDriver", launched |-> TRUE]
  ELSE [raises |-> env.launch, driver |-> None, launched |-> TRUE]

\* ----------------------------------------------------------- managed_driver
\* The except clauses of managed_driver, in order: the diagnostic printed for
\* an exception that reaches them, "" when no clause matches.
ExceptClause(e) ==
  IF e = "FileNotFoundError" THEN "Required file not found"
  ELSE IF IsException(e) THEN "Chrome setup failed"
  ELSE ""

\* getattr(self, '_keep_open', False)
GetKeepOpen(attr) == IF attr = << >> THEN FALSE ELSE attr[1]

FinallyQuitsAlways(driver, attr) == driver # None

\* finally: if driver and not getattr(self, '_keep_open', False): driver.quit()
FinallyQuits(driver, attr) == driver # None /\ ~GetKeepOpen(attr)

\* contextlib's __enter__ on the generator: the yielded handle reaches the
\* block; a generator that returns without yielding makes __enter__ raise
\* RuntimeError("generator didn't yield"); an exception the generator lets
\* through leaves __enter__ unchanged.
ContextEnter(raises) ==
  IF raises = "none" THEN "yield"
  ELSE IF ExceptClause(raises) # "" THEN "RuntimeError"
  ELSE raises

\* contextlib's __exit__: what the with statement delivers to its caller once
\* the generator has run to its end. how: the way the block was left; pending:
\* the exception still in flight after the except clauses; quit: how
\* driver.quit() ended ("none" when it was not called).
ContextExit(how, pending, quit) ==
  IF quit \notin {"none", "ok"} THEN quit
  ELSE IF pending # "none" THEN pending
  ELSE IF how \in Exceptions \cup Interrupts THEN "suppressed"
  ELSE how

NewSession == [st |-> "new", env |-> None, keep_open |-> FALSE, driver |-> None,
               launched |-> FALSE, quit |-> "none", how |-> "none",
               pending |-> "none", result |-> "none",
               profile_name |-> None, profile |-> << >>]

\* managed_driver up to its yield (lines 120-127), or through its except
\* clauses and its finally when create_driver raises. profile: the profile
\* directory create_driver computed, << >> when it raised before line 94.
managed_driver_enter(s, profile_name, keep_open, env) ==
  LET r == create_driver(env) IN
  /\ sess[s].st = "new"
  /\ _keep_open' = <<keep_open>>
  /\ sess' = [sess EXCEPT ![s] =
        [st |-> IF r.raises = "none" THEN "yielded" ELSE "closed",
         env |-> env, keep_open |-> keep_open, driver |-> r.driver,
         launched |-> r.launched, quit |-> "none", how |-> "none",
         pending |-> IF ExceptClause(r.raises) = "" /\ r.raises # "none"
                       THEN r.raises ELSE "none",
         result |-> ContextEnter(r.raises),
         profile_name |-> profile_name,
         profile |-> IF r.launched THEN <<profile_path(profile_name, now)>> ELSE << >>]]
  /\ log' = log \cup {"Launching Chrome"}
                \cup (IF r.raises = "none" THEN {} ELSE {ExceptClause(r.raises)} \ {""})

\* The block is left: the generator is resumed at its yield with next()
\* (normal completion, return) or throw() (an exception), and its except
\* clauses run (lines 128-132). printed: what the block printed in the step
\* that left it.
managed_driver_leave(s, how, printed) ==
  /\ sess[s].st = "yielded"
  /\ sess' = [sess EXCEPT ![s].st = "finally", ![s].how = how,
                          ![s].pending = IF Raises(how) /\ ExceptClause(how) = ""
                                           THEN how ELSE "none"]
  /\ log' = log \cup printed
                \cup (IF Raises(how) THEN {ExceptClause(how)} \ {""} ELSE {})
  /\ UNCHANGED _keep_open

QuitOutcomes == {"ok", "WebDriverException", "KeyboardInterrupt"}

\* The finally clause (lines 133-138) and the end of __exit__.
managed_driver_finally(s, q) ==
  LET quits == FinallyQuits(sess[s].driver, _keep_open)
      quit == IF quits THEN q ELSE "none"
  IN
  /\ sess[s].st = "finally"
  /\ quits \/ q = "ok"
  /\ sess' = [sess EXCEPT ![s].st = "closed", ![s].quit = quit,
                          ![s].result = ContextExit(sess[s].how, sess[s].pending, quit)]
  /\ log' = log \cup (IF quit = "ok" THEN {"Chrome closed"}
                      ELSE IF quit = "none" /\ sess[s].driver # None /\ GetKeepOpen(_keep_open)
                        THEN {"Chrome left open"}
                      ELSE {})
  /\ UNCHANGED _keep_open

\* -------------------------------------------------------------- FileHandler
\* Python values as <<type, text>>: text is the value's printed form.
PyScalars == {<<"str", "a">>, <<"int", "1">>, <<"NoneType", "null">>}
PyValues == PyScalars \cup {<<"list", "[1]">>, <<"tuple", "[1]">>}

\* Keys json.dump accepts: str, and int (written as its decimal text).
PyKeys == {<<"str", "a">>, <<"str", "1">>, <<"int", "1">>}

\* A dict as the sequence of its items in insertion order, keys distinct.
PyDicts ==
  {d \in SeqsUpTo(PyKeys \X PyValues, MaxKeys) :
     \A i, j \in 1..Len(d) : i # j => d[i][1] # d[j][1]}

\* The dict as Python compares it: its set of items, order aside.
Items(d) == {d[i] : i \in 1..Len(d)}

\* json.dump on one value: str -> string, int -> number, None -> null, list
\* and tuple -> array.
JsonValueOf(v) ==
  IF v[1] = "str" THEN <<"string", v[2]>>
  ELSE IF v[1] = "int" THEN <<"number", v[2]>>
  ELSE IF v[1] = "NoneType" THEN <<"null", v[2]>>
  ELSE <<"array", v[2]>>

\* json.dump on a dict: an object with one member per item, in order; each
\* key is written as a string, an int key as its decimal text.
json_dump(d) == [i \in 1..Len(d) |-> <<d[i][1][2], JsonValueOf(d[i][2])>>]

\* json.load on one value: string -> str, number -> int, null -> None,
\* array -> list.
PyValueOf(j) ==
  IF j[1] = "string" THEN <<"str", j[2]>>
  ELSE IF j[1] = "number" THEN <<"int", j[2]>>
  ELSE IF j[1] = "null" THEN <<"NoneType", j[2]>>
  ELSE <<"list", j[2]>>

\* json.load on an object: a dict with str keys; of members with the same
\* name the last one stays.
json_load(obj) ==
  {<<<<"str", obj[i][1]>>, PyValueOf(obj[i][2])>> :
     i \in {k \in 1..Len(obj) : \A m \in (k+1)..Len(obj) : obj[m][1] # obj[k][1]}}

Paths == {"out.json", "results/out.json"}

\* full_path.parent, as the set of directories below the base directory
Parents(path) == IF path = "results/out.json" THEN {"results"} ELSE {}

Absent == << >>
Invalid == <<"invalid">>

\* write_json: mkdir fails; open fails; json.dump fails after the file was
\* opened for writing (truncated); or all succeed.
JsonWriteOutcomes == {"ok", "mkdir_OSError", "open_OSError", "dump_OSError"}

write_json_returns_true(outcome) == TRUE

\* write_json returns True at the end of its try block, False from its except
write_json_returns(outcome) == outcome = "ok"

\* The disk after write_json(path, data) ended with outcome.
write_json(disk, path, data, outcome) ==
  IF outcome = "mkdir_OSError" THEN disk
  ELSE [dirs |-> disk.dirs \cup Parents(path),
        text |-> IF outcome = "open_OSError" THEN disk.text
                 ELSE IF outcome = "dump_OSError"
                   THEN [disk.text EXCEPT ![path] = Invalid]
                 ELSE [disk.text EXCEPT ![path] = <<"valid", json_dump(data)>>]]

\* read_json: {} for a missing file and for invalid JSON, else the loaded dict
read_json(disk, path) ==
  IF disk.text[path] = Absent THEN {}
  ELSE IF disk.text[path] = Invalid THEN {}
  ELSE json_load(disk.text[path][2])

\* ------------------------------------------------------ an arbitrary caller
BlockExits == {"normal", "return", "FileNotFoundError", "TimeoutException",
               "KeyboardInterrupt"}

Idle(s) == sess[s].st \in {"new", "closed"}

ClientEnter(s, profile_name, keep_open, env) ==
  /\ \A t \in Sessions : Idle(t)
  /\ \A t \in Sessions : t < s => sess[t].st = "closed"
  /\ managed_driver_enter(s, profile_name, keep_open, env)
  /\ UNCHANGED <<runVars, dom, titleVars, now, jsonVars>>

ClientLeave(s, how) ==
  /\ managed_driver_leave(s, how, {})
  /\ UNCHANGED <<runVars, dom, titleVars, now, jsonVars>>

ClientFinally(s, q) ==
  /\ managed_driver_finally(s, q)
  /\ UNCHANGED <<runVars, dom, titleVars, now, jsonVars>>

\* Time passes between two managed_driver calls.
TickSession ==
  /\ now < MaxClock
  /\ \A t \in Sessions : Idle(t)
  /\ \E t \in Sessions : sess[t].st = "new"
  /\ now' = now + 1
  /\ UNCHANGED <<managerVars, runVars, dom, titleVars, jsonVars>>

InitManager ==
  /\ _keep_open = << >>
  /\ sess = [s \in Sessions |-> NewSession]
  /\ log = {}
  /\ now = 0

InitRunIdle ==
  /\ pc = "start"
  /\ raised = "none"
  /\ success = FALSE
  /\ video_titles = << >>
  /\ files = [json |-> << >>, txt |-> << >>]
  /\ trace = << >>

InitTitlesIdle ==
  /\ max_results = DefaultMaxResults
  /\ tpc = "idle"

InitJsonIdle ==
  /\ fs = [dirs |-> {}, text |-> [p \in Paths |-> Absent]]
  /\ jpath = "out.json"
  /\ jdata = << >>
  /\ jret = << >>
  /\ jread = {}
  /\ jpc = "idle"

InitSession ==
  /\ InitManager
  /\ InitRunIdle
  /\ InitTitlesIdle
  /\ InitJsonIdle
  /\ dom = << >>

NextSession ==
  \/ \E s \in Sessions, n \in ProfileNames, k \in BOOLEAN, env \in SetupPaths :
       ClientEnter(s, n, k, env)
  \/ \E s \in Sessions, how \in BlockExits : ClientLeave(s, how)
  \/ \E s \in Sessions, q \in QuitOutcomes : ClientFinally(s, q)

SpecSession == InitSession /\ [][NextSession]_vars

\* The same caller with the clock running between its calls.
NextProfile ==
  \/ \E s \in Sessions, n \in ProfileNames, k \in BOOLEAN, env \in SetupPaths :
       ClientEnter(s, n, k, env)
  \/ TickSession
  \/ \E s \in Sessions, how \in BlockExits : ClientLeave(s, how)
  \/ \E s \in Sessions, q \in QuitOutcomes : ClientFinally(s, q)

SpecProfile == InitSession /\ [][NextProfile]_vars

\* ------------------------------------------------------- youtube_automation
\* What get_attribute("title") gives for one matched element: a title, NoTitle
\* (None or the empty string), or Stale when reading the element raises.
Titles == {"t1", "t2"}
NoTitle == ""
Stale == "StaleElementReferenceException"
Elements == Titles \cup {NoTitle, Stale}

Doms == SeqsUpTo(Elements, MaxElems)

Min(a, b) == IF a < b THEN a ELSE b

HasTitle(e) == e # NoTitle

\* video_elements[:max_results]
Slice(video_elements, n) == SubSeq(video_elements, 1, Min(n, Len(video_elements)))

get_video_titles_unsliced(video_elements, n) ==
  IF video_elements = << >> THEN << >>
  ELSE IF \E i \in 1..Len(video_elements) : video_elements[i] = Stale THEN << >>
  ELSE SelectSeq(video_elements, HasTitle)

\* get_video_titles: presence_of_all_elements_located times out on an empty
\* match; any exception (the timeout, a failing get_attribute) gives [].
get_video_titles(video_elements, n) ==
  LET head == Slice(video_elements, n) IN
  IF video_elements = << >> THEN << >>
  ELSE IF \E i \in 1..Len(head) : head[i] = Stale THEN << >>
  ELSE SelectSeq(head, HasTitle)

NavigateOutcomes == {"ok", "WebDriverException", "TimeoutException", "KeyboardInterrupt"}

\* search: "ok", a timeout of the search-box wait, a timeout of the results
\* wait, or an interrupt. Every Exception becomes False.
SearchOutcomes == {"ok", "input_timeout", "results_timeout", "KeyboardInterrupt"}

search(outcome) == outcome = "ok"

AfterSearchAlways(ok) == "extract"

\* search_tech_news after search: if success: get_video_titles() else return []
AfterSearch(ok) == IF ok THEN "extract" ELSE "return"

\* --------------------------------------------------------------------- core
DEFAULT_SEARCH_TERM == "What's New"

AfterTitlesAlwaysSave(titles) == "save_json"

AfterTitlesPromptOnlyWithTitles(titles) == IF titles # << >> THEN "save_json" ELSE "block_end"

\* run_youtube_demo after search_tech_news: if video_titles: self._save_results(...)
AfterTitles(titles) == IF titles # << >> THEN "save_json" ELSE "prompt_browse"

\* _save_results: the text file's content, a header with the search term and
\* one numbered line per title.
text_content(term, timestamp, titles) ==
  [header |-> "YouTube Search Results", search_term |-> term, timestamp |-> timestamp,
   lines |-> [i \in 1..Len(titles) |-> <<i, titles[i]>>]]

WriteOutcomes == {"ok", "OSError", "KeyboardInterrupt"}
PromptOutcomes == {"ok", "EOFError", "KeyboardInterrupt"}

TopLevelHandlerNoInterrupt(e) == IF IsException(e) THEN "Application error" ELSE ""

\* The except clauses of run_youtube_demo: the diagnostic printed, "" when
\* no clause matches and the exception leaves run_youtube_demo.
TopLevelHandler(e) ==
  IF e = "KeyboardInterrupt" THEN "Operation cancelled"
  ELSE IF IsException(e) THEN "Application error"
  ELSE ""

\* A step inside the with block: an outcome that raises leaves the block
\* through managed_driver's __exit__; any other goes on to nextpc, and
\* "block_end" is the end of the block, which leaves it normally.
BlockStep(outcome, nextpc, msgs) ==
  IF Raises(outcome)
    THEN /\ managed_driver_leave(1, outcome, {})
         /\ pc' = "finally"
  ELSE IF nextpc = "block_end"
    THEN /\ managed_driver_leave(1, "normal", msgs)
         /\ pc' = "finally"
    ELSE /\ log' = log \cup msgs
         /\ UNCHANGED <<_keep_open, sess>>
         /\ pc' = nextpc

\* with self.chrome_manager.managed_driver(keep_open=False) as driver:
RunOpen(env) ==
  /\ pc = "start"
  /\ managed_driver_enter(1, None, FALSE, env)
  /\ pc' = IF sess'[1].result = "yield" THEN "navigate" ELSE "handler"
  /\ raised' = IF sess'[1].result = "yield" THEN "none" ELSE sess'[1].result
  /\ UNCHANGED <<success, video_titles, files, trace, dom, titleVars, now, jsonVars>>

\* if not driver: return; YouTubeAutomation(driver); search_tech_news:
\* navigate_to_youtube (no try/except of its own)
RunNavigate(outcome) ==
  /\ pc = "navigate"
  /\ IF sess[1].driver = None
       THEN /\ managed_driver_leave(1, "return", {})
            /\ pc' = "finally"
            /\ UNCHANGED trace
       ELSE /\ BlockStep(outcome, "search", {"YouTube loaded"})
            /\ trace' = Append(trace, "navigate")
  /\ UNCHANGED <<raised, success, video_titles, files, dom, titleVars, now, jsonVars>>

\* search_tech_news: success = self.search(search_term)
RunSearch(outcome) ==
  /\ pc = "search"
  /\ trace' = Append(trace, "search")
  /\ IF Raises(outcome)
       THEN /\ BlockStep(outcome, "finally", {})
            /\ UNCHANGED <<success, video_titles>>
       ELSE LET ok == search(outcome)
                msgs == IF ok THEN {"Search completed"} ELSE {"Search failed"}
            IN /\ success' = ok
               /\ IF AfterSearch(ok) = "extract"
                    THEN /\ BlockStep(outcome, "extract", msgs)
                         /\ UNCHANGED video_titles
                    ELSE /\ video_titles' = << >>
                         /\ BlockStep(outcome, AfterTitles(<< >>), msgs)
  /\ UNCHANGED <<raised, files, dom, titleVars, now, jsonVars>>

\* search_tech_news: titles = self.get_video_titles(); return titles
RunExtract(outcome) ==
  /\ pc = "extract"
  /\ trace' = Append(trace, "extract")
  /\ IF Raises(outcome)
       THEN /\ BlockStep(outcome, "finally", {})
            /\ UNCHANGED video_titles
       ELSE /\ video_titles' = get_video_titles(dom, DefaultMaxResults)
            /\ BlockStep(outcome, AfterTitles(video_titles'),
                         IF dom = << >> \/ \E i \in 1..Len(dom) : dom[i] = Stale
                           THEN {"Failed to get video titles"} ELSE {"Found video titles"})
  /\ UNCHANGED <<raised, success, files, dom, titleVars, now, jsonVars>>

\* _save_results: data = {...}; self.file_handler.write_json(json_file, data)
RunSaveJson(outcome) ==
  /\ pc = "save_json"
  /\ trace' = Append(trace, "write_json")
  /\ files' = IF outcome = "ok"
                THEN [files EXCEPT !.json = <<[search_term |-> DEFAULT_SEARCH_TERM,
                                               timestamp |-> _get_timestamp(now),
                                               results |-> video_titles]>>]
                ELSE files
  /\ BlockStep(IF outcome = "OSError" THEN "caught" ELSE outcome, "save_text",
               IF outcome = "ok" THEN {"JSON file written"} ELSE {"Failed to write JSON"})
  /\ UNCHANGED <<raised, success, video_titles, dom, titleVars, now, jsonVars>>

\* _save_results: self.file_handler.write_text(text_file, text_content)
RunSaveText(outcome) ==
  /\ pc = "save_text"
  /\ trace' = Append(trace, "write_text")
  /\ files' = IF outcome = "ok"
                THEN [files EXCEPT !.txt = <<text_content(DEFAULT_SEARCH_TERM,
                                                          _get_timestamp(now), video_titles)>>]
                ELSE files
  /\ BlockStep(IF outcome = "OSError" THEN "caught" ELSE outcome, "prompt_browse",
               IF outcome = "ok" THEN {"File written"} ELSE {"Failed to write"})
  /\ UNCHANGED <<raised, success, video_titles, dom, titleVars, now, jsonVars>>

\* input("... Browse the results and press Enter when done...")
RunPromptBrowse(outcome) ==
  /\ pc = "prompt_browse"
  /\ trace' = Append(trace, "prompt_browse")
  /\ BlockStep(outcome, "prompt_close", {})
  /\ UNCHANGED <<raised, success, video_titles, files, dom, titleVars, now, jsonVars>>

\* input("... Press Enter to close Chrome and exit..."), then the end of the block
RunPromptClose(outcome) ==
  /\ pc = "prompt_close"
  /\ trace' = Append(trace, "prompt_close")
  /\ BlockStep(outcome, "block_end", {})
  /\ UNCHANGED <<raised, success, video_titles, files, dom, titleVars, now, jsonVars>>

\* The with statement ends: managed_driver's finally, then what __exit__
\* delivers: the function returns, or an exception goes to the handlers.
RunFinally(q) ==
  /\ pc = "finally"
  /\ managed_driver_finally(1, q)
  /\ LET r == sess'[1].result IN
       IF Raises(r)
         THEN /\ raised' = r
              /\ pc' = "handler"
         ELSE /\ raised' = "none"
              /\ pc' = "returned"
  /\ UNCHANGED <<success, video_titles, files, trace, dom, titleVars, now, jsonVars>>

\* except KeyboardInterrupt: ... except Exception as e: ...
RunHandler ==
  /\ pc = "handler"
  /\ log' = log \cup ({TopLevelHandler(raised)} \ {""})
  /\ pc' = IF TopLevelHandler(raised) = "" THEN "escaped" ELSE "returned"
  /\ UNCHANGED <<_keep_open, sess, raised, success, video_titles, files, trace, dom,
                 titleVars, now, jsonVars>>

\* Time passes before a statement that reads the clock: create_driver and
\* the two _get_timestamp calls of _save_results. Time passing elsewhere is
\* not observed before the next of these.
TickRun ==
  /\ now < MaxClock
  /\ pc \in {"start", "save_json", "save_text"}
  /\ now' = now + 1
  /\ UNCHANGED <<managerVars, runVars, dom, titleVars, jsonVars>>

Init ==
  /\ InitManager
  /\ InitRunIdle
  /\ InitTitlesIdle
  /\ InitJsonIdle
  /\ dom \in Doms

Next ==
  \/ \E env \in SetupEnvs : RunOpen(env)
  \/ \E o \in NavigateOutcomes : RunNavigate(o)
  \/ \E o \in SearchOutcomes : RunSearch(o)
  \/ \E o \in {"ok", "KeyboardInterrupt"} : RunExtract(o)
  \/ \E o \in WriteOutcomes : RunSaveJson(o)
  \/ \E o \in WriteOutcomes : RunSaveText(o)
  \/ \E o \in PromptOutcomes : RunPromptBrowse(o)
  \/ \E o \in PromptOutcomes : RunPromptClose(o)
  \/ \E q \in QuitOutcomes : RunFinally(q)
  \/ RunHandler
  \/ TickRun

Spec == Init /\ [][Next]_vars

\* ------------------------------------------------ get_video_titles, alone
InitTitles ==
  /\ InitManager
  /\ InitRunIdle
  /\ InitJsonIdle
  /\ dom \in Doms
  /\ max_results \in 0..MaxResultsArg
  /\ tpc = "idle"

CallGetVideoTitles ==
  /\ tpc = "idle"
  /\ video_titles' = get_video_titles(dom, max_results)
  /\ tpc' = "returned"
  /\ UNCHANGED <<managerVars, pc, raised, success, files, trace, dom, max_results, now,
                 jsonVars>>

NextTitles == CallGetVideoTitles

SpecTitles == InitTitles /\ [][NextTitles]_vars

\* ------------------------------------------- write_json, then read_json
\* A disk where a file exists only inside existing directories.
InitJson ==
  /\ InitManager
  /\ InitRunIdle
  /\ InitTitlesIdle
  /\ dom = << >>
  /\ jpath \in Paths
  /\ jdata \in PyDicts
  /\ fs \in [dirs : SUBSET {"results"}, text : [Paths -> {Absent, Invalid}]]
  /\ \A p \in Paths : fs.text[p] # Absent => Parents(p) \subseteq fs.dirs
  /\ jret = << >>
  /\ jread = {}
  /\ jpc = "idle"

CallWriteJson(outcome) ==
  /\ jpc = "idle"
  /\ outcome = "mkdir_OSError" => ~(Parents(jpath) \subseteq fs.dirs)
  /\ fs' = write_json(fs, jpath, jdata, outcome)
  /\ jret' = <<write_json_returns(outcome)>>
  /\ jpc' = "written"
  /\ UNCHANGED <<managerVars, runVars, dom, titleVars, now, jpath, jdata, jread>>

CallReadJson ==
  /\ jpc = "written"
  /\ jread' = read_json(fs, jpath)
  /\ jpc' = "read"
  /\ UNCHANGED <<managerVars, runVars, dom, titleVars, now, fs, jpath, jdata, jret>>

NextJson ==
  \/ \E o \in JsonWriteOutcomes : CallWriteJson(o)
  \/ CallReadJson

SpecJson == InitJson /\ [][NextJson]_vars

\* ------------------------------------------------ nested scoped blocks
\* with m.managed_driver(...) as a: with m.managed_driver(...) as b: ...
\* on one ChromeDriverManager: a block is opened inside the block opened
\* before it, and the inner block is left before the outer one.
Open(s) == sess[s].st \in {"yielded", "finally"}

NestedEnter(s, profile_name, keep_open, env) ==
  /\ \A t \in Sessions : t = s - 1 => sess[t].st = "yielded"
  /\ managed_driver_enter(s, profile_name, keep_open, env)
  /\ UNCHANGED <<runVars, dom, titleVars, now, jsonVars>>

NestedLeave(s, how) ==
  /\ \A t \in Sessions : t > s => ~Open(t)
  /\ managed_driver_leave(s, how, {})
  /\ UNCHANGED <<runVars, dom, titleVars, now, jsonVars>>

NestedFinally(s, q) ==
  /\ managed_driver_finally(s, q)
  /\ UNCHANGED <<runVars, dom, titleVars, now, jsonVars>>

NextNested ==
  \/ \E s \in Sessions, n \in ProfileNames, k \in BOOLEAN, env \in SetupPaths :
       NestedEnter(s, n, k, env)
  \/ \E s \in Sessions, how \in BlockExits : NestedLeave(s, how)
  \/ \E s \in Sessions, q \in QuitOutcomes : NestedFinally(s, q)

SpecNested == InitSession /\ [][NextNested]_vars

\* =================================================================== claims
Range(q) == {q[i] : i \in 1..Len(q)}

IsPrefix(p, q) == Len(p) <= Len(q) /\ \A i \in 1..Len(p) : p[i] = q[i]

Last(q) == q[Len(q)]

IsDomStep(e) == e \in {"navigate", "search", "extract"}
IsPrompt(e) == e \in {"prompt_browse", "prompt_close"}
IsWrite(e) == e \in {"write_json", "write_text"}

TopLevelLogs == {"Operation cancelled", "Application error"}

\* C1 (SpecSession): for a scoped session whose handle was created, whichever
\* way the block is left (normal, return, exception, keyboard interrupt),
\* driver.quit() has been called by the time the block's exit completes if and
\* only if keep_open was false; with keep_open true it is never called.
C1_QuitIffNotKeepOpen ==
  \A s \in Sessions :
    /\ (sess[s].st = "closed" /\ sess[s].driver # None)
         => ((sess[s].quit # "none") <=> ~sess[s].keep_open)
    /\ sess[s].keep_open => sess[s].quit = "none"

C1_Witness ==
  /\ sess[1].st = "closed" /\ sess[1].driver # None
  /\ sess[1].keep_open /\ sess[1].how = "KeyboardInterrupt" /\ sess[1].quit = "none"
  /\ sess[2].st = "closed" /\ sess[2].driver # None
  /\ ~sess[2].keep_open /\ sess[2].how = "TimeoutException" /\ sess[2].quit = "ok"

\* C2 (Spec), as claimed: an exception raised inside the block after the
\* handle was yielded leaves managed_driver as that exception and is logged by
\* the generic handler of run_youtube_demo.
C2_BlockExceptionReachesHandler ==
  (sess[1].st = "closed" /\ sess[1].how \in Exceptions)
    => /\ sess[1].result = sess[1].how
       /\ pc = "returned" => "Application error" \in log

\* C3 (Spec), as claimed: when create_driver fails, the block is entered (with
\* a null handle) and no exception reaches the caller of managed_driver.
C3_SetupFailureYieldsNull ==
  (sess[1].st # "new" /\ create_driver(sess[1].env).raises \in Exceptions)
    => /\ sess[1].result = "yield"
       /\ raised = "none"

\* C4 (Spec): when one of the two resolved paths does not exist, no browser is
\* launched, "Required file not found" is logged, no second session is opened,
\* and the run ends with no navigation, search, extraction or file write.
C4_MissingBinary ==
  (/\ sess[1].st # "new"
   /\ sess[1].env.paths_ok
   /\ ~sess[1].env.chrome_exists \/ ~sess[1].env.driver_exists)
    => /\ ~sess[1].launched
       /\ sess[1].st = "closed"
       /\ "Required file not found" \in log
       /\ \A s \in Sessions \ {1} : sess[s].st = "new"
       /\ trace = << >>
       /\ files = [json |-> << >>, txt |-> << >>]
       /\ pc \in {"handler", "returned"}

C4_Witness ==
  /\ pc = "returned"
  /\ sess[1].env.paths_ok /\ sess[1].env.chrome_exists /\ ~sess[1].env.driver_exists
  /\ sess[1].env.launch = "ok"

C6_SearchGatesExtraction ==
  /\ IsPrefix(SelectSeq(trace, IsDomStep), <<"navigate", "search", "extract">>)
  /\ "extract" \in Range(trace) => success
  /\ ("search" \in Range(trace) /\ ~success) => video_titles = << >>

C6_Witness ==
  /\ pc = "prompt_browse"
  /\ "search" \in Range(trace) /\ ~success
  /\ get_video_titles(dom, DefaultMaxResults) # << >>
  /\ video_titles = << >>

\* C7 (Spec), as claimed: no bounded-wait timeout leaves the DOM steps as an
\* exception (the block is never left by a TimeoutException).
C7_NoTimeoutEscapes == sess[1].how # "TimeoutException"

\* The first min(k, max_results) positions of the match that carry a title.
TitledHead(elems, n) == {i \in 1..Min(n, Len(elems)) : elems[i] # NoTitle}

\* The position in elems of the j-th titled element.
NthTitled(elems, n, j) ==
  CHOOSE i \in TitledHead(elems, n) :
    Cardinality({m \in TitledHead(elems, n) : m <= i}) = j

StaleInHead(elems, n) == \E i \in 1..Min(n, Len(elems)) : elems[i] = Stale

\* C8 (SpecTitles), as claimed: with k matched elements, k < max_results gives
\* exactly k titles in DOM order; k >= max_results gives at most max_results
\* titles, taken from the first max_results elements.
C8_ExactlyK ==
  tpc = "returned" =>
    /\ Len(dom) < max_results => (Len(video_titles) = Len(dom) /\ video_titles = dom)
    /\ Len(dom) >= max_results => Len(video_titles) <= max_results

\* C8 (SpecTitles), amended: get_video_titles(max_results) returns the
\* non-empty titles of the first min(k, max_results) matched elements, in DOM
\* order (so k titles only when k < max_results and each element has one),
\* and the empty sequence when reading one of those elements raises.
C8_TitledHeadInOrder ==
  tpc = "returned" =>
    IF StaleInHead(dom, max_results)
      THEN video_titles = << >>
      ELSE /\ Len(video_titles) = Cardinality(TitledHead(dom, max_results))
           /\ \A j \in 1..Len(video_titles) :
                video_titles[j] = dom[NthTitled(dom, max_results, j)]

C8_Witness ==
  /\ tpc = "returned"
  /\ Len(dom) = 3 /\ max_results = 2
  /\ dom[1] = NoTitle /\ dom[2] \in Titles /\ dom[3] \in Titles
  /\ video_titles = <<dom[2]>>

JsonInterrupted ==
  sess[1].how = "KeyboardInterrupt" /\ trace # << >> /\ Last(trace) = "write_json"

PastSave == pc \in {"prompt_browse", "prompt_close", "finally", "handler", "returned"}

\* C9 (Spec), as claimed: a result-file write is attempted if and only if the
\* handle was usable and search_tech_news returned titles, and then both the
\* JSON write and the text write are attempted.
C9_BothWritesIffTitles ==
  /\ Range(trace) \cap {"write_json", "write_text"} # {}
       => (sess[1].driver # None /\ video_titles # << >>)
  /\ (PastSave /\ sess[1].driver # None /\ video_titles # << >>)
       => {"write_json", "write_text"} \subseteq Range(trace)

\* C9 (Spec), amended: a result-file write is attempted only if the handle was
\* usable and search_tech_news returned titles; when it did, the JSON write is
\* attempted, and the text write after it unless a keyboard interrupt ended
\* the JSON write; a failed JSON write does not stop the text write.
C9_WritesGatedByTitles ==
  /\ Range(trace) \cap {"write_json", "write_text"} # {}
       => (sess[1].driver # None /\ video_titles # << >>)
  /\ IsPrefix(SelectSeq(trace, IsWrite), <<"write_json", "write_text">>)
  /\ (PastSave /\ sess[1].driver # None /\ video_titles # << >>)
       => /\ "write_json" \in Range(trace)
          /\ "write_text" \in Range(trace) \/ JsonInterrupted
  /\ files.json # << >> => files.json[1].results = video_titles
  /\ files.txt # << >> =>
       (/\ Len(files.txt[1].lines) = Len(video_titles)
        /\ \A i \in 1..Len(video_titles) : files.txt[1].lines[i] = <<i, video_titles[i]>>)

C9_Witness ==
  /\ pc = "returned"
  /\ {"write_json", "write_text"} \subseteq Range(trace)
  /\ files.json = << >>
  /\ files.txt # << >>

\* C10 (Spec): in a run with a usable handle and no exception or interrupt,
\* driver.quit() is called only after both prompts were answered, the browse
\* prompt before the close prompt, with or without titles.
C10_QuitAfterBothPrompts ==
  (sess[1].how = "normal" /\ sess[1].quit \in {"none", "ok"})
    => /\ SelectSeq(trace, IsPrompt) = <<"prompt_browse", "prompt_close">>
       /\ sess[1].st = "closed" => sess[1].quit = "ok"
       /\ pc = "returned" => raised = "none"

C10_Witness ==
  /\ pc = "returned"
  /\ sess[1].how = "normal" /\ sess[1].quit = "ok"
  /\ video_titles = << >>
  /\ SelectSeq(trace, IsPrompt) = <<"prompt_browse", "prompt_close">>

\* C11 (Spec), as claimed: when both result files were written in a run, they
\* carry the same search term, the same timestamp string and the same titles
\* in the same order, whatever time passed between the two writes.
C11_OneSearchResult ==
  (files.json # << >> /\ files.txt # << >>)
    => /\ files.json[1].search_term = files.txt[1].search_term
       /\ files.json[1].timestamp = files.txt[1].timestamp
       /\ Len(files.txt[1].lines) = Len(files.json[1].results)
       /\ \A i \in 1..Len(files.json[1].results) :
            files.txt[1].lines[i] = <<i, files.json[1].results[i]>>

\* C12 (SpecProfile), as claimed: two create_driver calls with the same
\* profile name, whenever they are made, compute different profile
\* directories.
C12_FreshProfilePerCall ==
  \A s, t \in Sessions :
    (/\ s # t
     /\ sess[s].profile # << >> /\ sess[t].profile # << >>
     /\ sess[s].profile_name = sess[t].profile_name)
      => sess[s].profile # sess[t].profile

JsonNative(d) ==
  \A i \in 1..Len(d) : d[i][1][1] = "str" /\ d[i][2][1] # "tuple"

C14_OwnKeepOpenWhenNested ==
  \A s, t \in Sessions :
    (/\ s < t
     /\ sess[s].driver # None /\ sess[t].driver # None
     /\ sess[s].keep_open # sess[t].keep_open)
      => \A u \in {s, t} :
           sess[u].st = "closed" => ((sess[u].quit # "none") <=> ~sess[u].keep_open)

====
